---- MODULE Spec2Model ----
(***************************************************************************)
(* State estimators of project 3: the live (ROS, differential-drive)       *)
(* module  src/project3/src/turtlebot_proj3_pkg/src/Estimator.py  and the  *)
(* replay (planar quadrotor) module  src/project3/drone_proj3/             *)
(* drone_estimator.py.                                                     *)
(*                                                                         *)
(* Numbers.  The code computes in IEEE doubles; the model computes in      *)
(* decimal fixed point with six fractional digits: the integer n stands for  *)
(* the real n / 10^6 (0.1 is 100000, 0.033 is 33000).  Products and        *)
(* quotients are rounded to the nearest unit, so each operation's result   *)
(* is within 10^-6 of the code's, and exact wherever the exact result has  *)
(* at most six decimals; a later product with a factor of size c carries   *)
(* that error times c (the Kalman gains agree to about 10^-5).  All        *)
(* intermediate values stay inside 32 bits.  Timestamps of the live        *)
(* module are the exception: they are compared, so they are kept as the    *)
(* exact doubles and float32s of the code (see Timestamps below).          *)
(***************************************************************************)
EXTENDS Integers, Sequences, FiniteSets, TLC

\* ------------------------------------------------------------------------
\* Evaluation order
\* ------------------------------------------------------------------------

\* Python evaluates an expression once and binds the value to a name.
\* Let(v, Body) is Body(v) with v evaluated once; Let2 binds two values.
Let(v, Body(_)) == CHOOSE r \in { Body(w) : w \in {v} } : TRUE

Let2(v1, v2, Body(_, _)) ==
    CHOOSE r \in { Body(w1, w2) : w1 \in {v1}, w2 \in {v2} } : TRUE

\* ------------------------------------------------------------------------
\* Fixed-point arithmetic
\* ------------------------------------------------------------------------

\* one unit of the real line
F == 10 ^ 6

\* the base of the limbs a product is computed in; F = Limb * Limb
Limb == 10 ^ 3

Abs(a) == IF a < 0 THEN -a ELSE a

Sgn(a) == IF a < 0 THEN -1 ELSE IF a > 0 THEN 1 ELSE 0

\* the product of two magnitudes m, n >= 0: the schoolbook product of the
\* limbs, so that no partial product leaves 32 bits; rounded to nearest
MulMag(m, n) ==
    LET m2 == m \div F
        m1 == (m % F) \div Limb
        m0 == m % Limb
        n2 == n \div F
        n1 == (n % F) \div Limb
        n0 == n % Limb
    IN  m2 * n2 * F
          + (m2 * n1 + m1 * n2) * Limb
          + (m2 * n0 + m1 * n1 + m0 * n2)
          + ((m1 * n0 + m0 * n1) * Limb + m0 * n0 + F \div 2) \div F

\* a * b of two fixed-point numbers (float __mul__)
MulFix(a, b) ==
    Let2(a, b, LAMBDA va, vb : Sgn(va) * Sgn(vb) * MulMag(Abs(va), Abs(vb)))

\* the digits of the quotient r / n after the point, one decimal digit at a
\* time: k digits to go, acc the digits so far; the last one rounded
RECURSIVE DivDigits(_, _, _, _)
DivDigits(r, n, k, acc) ==
    IF k = 0
    THEN acc + (IF 2 * r >= n THEN 1 ELSE 0)
    ELSE Let2((r * 10) % n, acc * 10 + (r * 10) \div n,
              LAMBDA r1, acc1 : DivDigits(r1, n, k - 1, acc1))

\* a / b of two fixed-point numbers (float __truediv__), rounded to nearest;
\* b # 0
DivFix(a, b) ==
    Let2(a, b, LAMBDA va, vb :
        Sgn(va) * Sgn(vb)
          * ((Abs(va) \div Abs(vb)) * F + DivDigits(Abs(va) % Abs(vb), Abs(vb), 6, 0)))

\* a fixed-point number divided by a plain integer k > 0, rounded to nearest
DivInt(a, k) == Let(a, LAMBDA va : Sgn(va) * ((Abs(va) + k \div 2) \div k))

\* np.cos / np.sin: the Taylor series to the eleventh power in Horner form,
\* accurate to about 10^-5 for |a| <= 2
RECURSIVE Horner(_, _, _)
Horner(a2, divisors, h) ==
    IF divisors = <<>>
    THEN h
    ELSE Let(F - DivInt(MulFix(a2, h), Head(divisors)),
             LAMBDA h1 : Horner(a2, Tail(divisors), h1))

Cos(a) == Let(MulFix(a, a), LAMBDA a2 : Horner(a2, <<90, 56, 30, 12, 2>>, F))

Sin(a) ==
    Let(a, LAMBDA va :
        MulFix(va, Horner(MulFix(va, va), <<110, 72, 42, 20, 6>>, F)))

\* np.sqrt: Newton's iteration from a start above the root, which decreases
\* to it
RECURSIVE SqrtIter(_, _)
SqrtIter(v, r) ==
    Let((r + DivFix(v, r)) \div 2,
        LAMBDA nxt : IF nxt >= r THEN r ELSE SqrtIter(v, nxt))

Sqrt(a) ==
    Let(a, LAMBDA v :
        IF v <= 0 THEN 0
        ELSE SqrtIter(v, IF v <= F THEN F ELSE IF v <= 47 * F THEN v ELSE 47 * F))

\* ------------------------------------------------------------------------
\* Vectors and matrices (numpy arrays): a vector is a tuple, a matrix a tuple
\* of rows
\* ------------------------------------------------------------------------

Last(s) == s[Len(s)]

VAdd(a, b) == Let2(a, b, LAMBDA va, vb : [k \in DOMAIN va |-> va[k] + vb[k]])

VSub(a, b) == Let2(a, b, LAMBDA va, vb : [k \in DOMAIN va |-> va[k] - vb[k]])

RECURSIVE DotTo(_, _, _)
DotTo(a, b, k) == IF k = 0 THEN 0 ELSE DotTo(a, b, k - 1) + MulFix(a[k], b[k])

\* np.dot of two vectors
Dot(a, b) == Let2(a, b, LAMBDA va, vb : DotTo(va, vb, Len(va)))

Column(M, j) == [k \in DOMAIN M |-> M[k][j]]

Transpose(M) == Let(M, LAMBDA vm : [j \in DOMAIN vm[1] |-> Column(vm, j)])

\* M @ v
MatVec(M, v) == Let2(M, v, LAMBDA vm, vv : [k \in DOMAIN vm |-> Dot(vm[k], vv)])

\* A @ B
MatMul(A, B) ==
    Let2(A, Transpose(B), LAMBDA va, vbt :
        [k \in DOMAIN va |-> [j \in DOMAIN vbt |-> Dot(va[k], vbt[j])]])

MatAdd(A, B) == Let2(A, B, LAMBDA va, vb : [k \in DOMAIN va |-> VAdd(va[k], vb[k])])

MatSub(A, B) == Let2(A, B, LAMBDA va, vb : [k \in DOMAIN va |-> VSub(va[k], vb[k])])

\* np.diag(v)
Diag(v) == [k \in DOMAIN v |-> [j \in DOMAIN v |-> IF k = j THEN v[k] ELSE 0]]

\* np.eye(n)
Eye(n) == Diag([k \in 1..n |-> F])

\* np.eye(n) * c
ScaledEye(n, c) == Diag([k \in 1..n |-> c])

\* np.linalg.inv of a 2 x 2 matrix, by elimination on the larger pivot of the
\* first column as LAPACK does it: the inverse of [[a, b], [c, d]]
Inv2Pivoted(a, b, c, d) ==
    Let2(DivFix(c, a), DivFix(b, a), LAMBDA l, ba :
        Let(d - MulFix(l, b), LAMBDA e :
            Let(DivFix(l, e), LAMBDA le :
                << << DivFix(F, a) + MulFix(ba, le), -DivFix(ba, e) >>,
                   << -le, DivFix(F, e) >> >>)))

Inv2(M) ==
    Let(M, LAMBDA vm :
        IF Abs(vm[1][1]) >= Abs(vm[2][1])
        THEN Inv2Pivoted(vm[1][1], vm[1][2], vm[2][1], vm[2][2])
        ELSE Let(Inv2Pivoted(vm[2][1], vm[2][2], vm[1][1], vm[1][2]), LAMBDA R :
                 << <<R[1][2], R[1][1]>>, <<R[2][2], R[2][1]>> >>))

\* list slices x[1:] and x[2:]
Tail1(s) == SubSeq(s, 2, Len(s))

Tail2(s) == SubSeq(s, 3, Len(s))

\* ------------------------------------------------------------------------
\* Timestamps.  The guard of update compares timestamps, and rounding decides
\* it (0.1 + 0.1 + 0.1 is not 0.3, and 0.1 sent as a float32 is not 0.1), so
\* a timestamp is kept exactly: the pair <<hi, lo>> stands for the real
\* (hi * 2^28 + lo) / 2^56, 0 <= lo < 2^28.  Every double and every float32
\* in [2^-32, 8) is such a pair.
\* ------------------------------------------------------------------------

\* the base of the two limbs of a timestamp
StampBase == 2 ^ 28

\* a < b of two floats
StampLess(a, b) == a[1] < b[1] \/ (a[1] = b[1] /\ a[2] < b[2])

\* the pair of hi * 2^28 + lo, lo of any size
StampCarry(hi, lo) == << hi + (lo \div StampBase), lo % StampBase >>

\* the real a + b
StampSum(a, b) == StampCarry(a[1] + b[1], a[2] + b[2])

\* the real k * a of a small integer k
StampTimes(k, a) == StampCarry(k * a[1], k * a[2])

\* the length of the natural n in bits
RECURSIVE BitLen(_)
BitLen(n) == IF n = 0 THEN 0 ELSE 1 + BitLen(n \div 2)

\* the bits a has beyond a significand of `bits` bits
ExcessBits(a, bits) ==
    Let(IF a[1] > 0 THEN 28 + BitLen(a[1]) ELSE BitLen(a[2]), LAMBDA len :
        IF len > bits THEN len - bits ELSE 0)

\* a rounded to a multiple of 2^s / 2^56, s < 28, ties to even
RoundLow(a, s) ==
    Let2(2 ^ s, a[2] % (2 ^ s), LAMBDA q, r :
        IF 2 * r > q \/ (2 * r = q /\ ((a[2] - r) \div q) % 2 = 1)
        THEN StampCarry(a[1], a[2] - r + q)
        ELSE << a[1], a[2] - r >>)

\* a rounded to a multiple of 2^(28 + s) / 2^56, s >= 0, ties to even
RoundHigh(a, s) ==
    Let2(2 ^ s, a[1] % (2 ^ s), LAMBDA q, r :
        IF \/ 2 * r > q
           \/ 2 * r = q /\ a[2] > 0
           \/ 2 * r = q /\ a[2] = 0 /\ ((a[1] - r) \div q) % 2 = 1
           \/ q = 1 /\ 2 * a[2] > StampBase
           \/ q = 1 /\ 2 * a[2] = StampBase /\ a[1] % 2 = 1
        THEN << a[1] - r + q, 0 >>
        ELSE << a[1] - r, 0 >>)

\* the real a rounded to `bits` significant bits, ties to even
RoundTo(a, bits) ==
    Let(ExcessBits(a, bits), LAMBDA s :
        IF s < 28 THEN RoundLow(a, s) ELSE RoundHigh(a, s - 28))

\* a + b of two doubles
DoubleAdd(a, b) == RoundTo(StampSum(a, b), 53)

\* k * a of an integer and a double
DoubleTimes(k, a) == RoundTo(StampTimes(k, a), 53)

\* a double sent in a Float32MultiArray: msg.data holds it rounded to float32
Float32(a) == RoundTo(a, 24)

\* ------------------------------------------------------------------------
\* Live module: constants of Estimator.__init__ and the subclasses
\* ------------------------------------------------------------------------

\* self.d = 0.08
Live_d == 80000

\* self.r = 0.033
Live_r == 33000

\* self.dt = 0.1
Live_dt == 100000

\* self.dt as timestamps are added to it: the double 0.1, 7205759403792794 / 2^56
Live_dt_double == << 26843545, 161061274 >>

\* self.phid = np.pi / 4
Live_phid == 785398

\* KalmanFilter: self.A, self.B, self.C, self.Q, self.R and the first self.P
Live_KF_A == Eye(4)

Live_KF_B ==
    LET c == MulFix(MulFix(DivInt(Live_r, 2), Cos(Live_phid)), Live_dt)
        s == MulFix(MulFix(DivInt(Live_r, 2), Sin(Live_phid)), Live_dt)
    IN  << <<c, c>>, <<s, s>>, <<Live_dt, 0>>, <<0, Live_dt>> >>

Live_KF_C == << <<F, 0, 0, 0>>, <<0, F, 0, 0>> >>

Live_KF_Q == ScaledEye(4, 100 * F)

Live_KF_R == Eye(2)

Live_KF_P0 == Eye(4)

\* ExtendedKalmanFilter: self.C, self.Q, self.R and the first self.P
Live_EKF_C == << <<0, F, 0, 0, 0>>, <<0, 0, F, 0, 0>> >>

Live_EKF_Q == Diag(<<10000, 250000, 250000, 10000, 10000>>)

Live_EKF_R == ScaledEye(2, 100 * F)

Live_EKF_P0 == Diag(<<F, 250000, 250000, 100 * F, 100 * F>>)

\* ------------------------------------------------------------------------
\* Live module: the estimators' arithmetic
\* ------------------------------------------------------------------------

\* DeadReckoning.model with the wheel radius not halved in dx and dy
Live_DeadReckoning_model_full_radius(xs, us) ==
    Let2(xs[2], us, LAMBDA phi, uv :
        << DivFix(MulFix(uv[3] - uv[2], Live_r), 2 * Live_d),
           MulFix(MulFix(uv[3] + uv[2], Live_r), Cos(phi)),
           MulFix(MulFix(uv[3] + uv[2], Live_r), Sin(phi)),
           uv[2],
           uv[3] >>)

\* DeadReckoning.model(x, u): x = [t, phi, x, y, thl, thr], u = [t, u_L, u_R]
Live_DeadReckoning_model(xs, us) ==
    Let2(xs[2], us, LAMBDA phi, uv :
        << DivFix(MulFix(uv[3] - uv[2], Live_r), 2 * Live_d),
           MulFix(MulFix(uv[3] + uv[2], DivInt(Live_r, 2)), Cos(phi)),
           MulFix(MulFix(uv[3] + uv[2], DivInt(Live_r, 2)), Sin(phi)),
           uv[2],
           uv[3] >>)

\* DeadReckoning.update, the entry x_tp1 it appends
Live_DeadReckoning_step(x_hat_t, u_t0) ==
    Let2(x_hat_t, Live_DeadReckoning_model(x_hat_t, u_t0), LAMBDA xv, dv :
        << DoubleAdd(xv[1], Live_dt_double),
           xv[2] + MulFix(dv[1], Live_dt),
           xv[3] + MulFix(dv[2], Live_dt),
           xv[4] + MulFix(dv[3], Live_dt),
           xv[5] + MulFix(dv[4], Live_dt),
           xv[6] + MulFix(dv[5], Live_dt) >>)

\* the gain and the correction shared by the Kalman updates:
\*   K = P_tp1_t @ C.T @ inv(C @ P_tp1_t @ C.T + R)
KalmanGain(P_tp1_t, C, R) ==
    MatMul(MatMul(P_tp1_t, Transpose(C)),
           Inv2(MatAdd(MatMul(MatMul(C, P_tp1_t), Transpose(C)), R)))

\*   P = (np.eye(n) - K @ C) @ P_tp1_t
KalmanCovariance(n, K, C, P_tp1_t) ==
    MatMul(MatSub(Eye(n), MatMul(K, C)), P_tp1_t)

\* KalmanFilter.update with the gain and the new covariance taken from
\* self.P as it was before the prediction instead of P_tp1_t
Live_KalmanFilter_step_prior_gain(x_t, u_t0, y_t, P_t) ==
    Let2(VAdd(MatVec(Live_KF_A, Tail2(x_t)), MatVec(Live_KF_B, Tail1(u_t0))),
         MatAdd(MatMul(MatMul(Live_KF_A, P_t), Transpose(Live_KF_A)), Live_KF_Q),
         LAMBDA x_hat_tp1_t, P_tp1_t :
    Let2(KalmanGain(P_t, Live_KF_C, Live_KF_R),
         VSub(Tail1(y_t), MatVec(Live_KF_C, x_hat_tp1_t)),
         LAMBDA K, innov :
    Let(VAdd(x_hat_tp1_t, MatVec(K, innov)), LAMBDA x_hat_tp1 :
        [ x_pred |-> x_hat_tp1_t, P_pred |-> P_tp1_t, K |-> K, innov |-> innov,
          P |-> KalmanCovariance(4, K, Live_KF_C, P_t),
          entry |-> << DoubleAdd(x_t[1], Live_dt_double), Live_phid, x_hat_tp1[1], x_hat_tp1[2],
                       x_hat_tp1[3], x_hat_tp1[4] >> ])))

\* KalmanFilter.update: the locals of one pass and what it leaves behind
\* (the new self.P and the entry it appends); x_t, u_t, y_t are whole records
Live_KalmanFilter_step(x_t, u_t0, y_t, P_t) ==
    Let2(VAdd(MatVec(Live_KF_A, Tail2(x_t)), MatVec(Live_KF_B, Tail1(u_t0))),
         MatAdd(MatMul(MatMul(Live_KF_A, P_t), Transpose(Live_KF_A)), Live_KF_Q),
         LAMBDA x_hat_tp1_t, P_tp1_t :
    Let2(KalmanGain(P_tp1_t, Live_KF_C, Live_KF_R),
         VSub(Tail1(y_t), MatVec(Live_KF_C, x_hat_tp1_t)),
         LAMBDA K, innov :
    Let(VAdd(x_hat_tp1_t, MatVec(K, innov)), LAMBDA x_hat_tp1 :
        [ x_pred |-> x_hat_tp1_t, P_pred |-> P_tp1_t, K |-> K, innov |-> innov,
          P |-> KalmanCovariance(4, K, Live_KF_C, P_tp1_t),
          entry |-> << DoubleAdd(x_t[1], Live_dt_double), Live_phid, x_hat_tp1[1], x_hat_tp1[2],
                       x_hat_tp1[3], x_hat_tp1[4] >> ])))

\* ExtendedKalmanFilter.f(x, u): x = [phi, x, y, thl, thr], u = [u1, u2]
Live_ExtendedKalmanFilter_f(xs, us) ==
    Let2(xs[1], us, LAMBDA phi, uv :
        << DivFix(MulFix(uv[2] - uv[1], Live_r), 2 * Live_d),
           MulFix(MulFix(uv[2] + uv[1], DivInt(Live_r, 2)), Cos(phi)),
           MulFix(MulFix(uv[2] + uv[1], DivInt(Live_r, 2)), Sin(phi)),
           uv[1],
           uv[2] >>)

\* ExtendedKalmanFilter.g(x, u)
Live_ExtendedKalmanFilter_g(xs, us) ==
    Let2(xs, Live_ExtendedKalmanFilter_f(xs, us), LAMBDA xv, dv :
        [k \in 1..5 |-> xv[k] + MulFix(dv[k], Live_dt)])

\* ExtendedKalmanFilter.h(x, y_obs): self.C @ x
Live_ExtendedKalmanFilter_h(xs, y_obs) == MatVec(Live_EKF_C, xs)

\* ExtendedKalmanFilter.approx_A(x, u): np.eye(5) + df_dx * self.dt
Live_ExtendedKalmanFilter_approx_A(xs, us) ==
    Let2(MulFix(-MulFix(MulFix(us[1] + us[2], DivInt(Live_r, 2)), Sin(xs[1])), Live_dt),
         MulFix(MulFix(MulFix(us[1] + us[2], DivInt(Live_r, 2)), Cos(xs[1])), Live_dt),
         LAMBDA a21, a31 :
        [k \in 1..5 |-> [j \in 1..5 |->
            (IF k = j THEN F ELSE 0)
              + (IF k = 2 /\ j = 1 THEN a21 ELSE IF k = 3 /\ j = 1 THEN a31 ELSE 0)]])

\* ExtendedKalmanFilter.approx_C(x)
Live_ExtendedKalmanFilter_approx_C(xs) == Live_EKF_C

\* ExtendedKalmanFilter.update: the locals of one pass and what it leaves
\* behind; x_t, u_t, y_t are whole records
Live_ExtendedKalmanFilter_step(x_t, u_t0, y_t, P_t) ==
    Let2(Live_ExtendedKalmanFilter_g(Tail1(x_t), Tail1(u_t0)),
         Live_ExtendedKalmanFilter_approx_A(Tail1(x_t), Tail1(u_t0)),
         LAMBDA x_hat_tp1_t, A :
    Let2(MatAdd(MatMul(MatMul(A, P_t), Transpose(A)), Live_EKF_Q),
         Live_ExtendedKalmanFilter_approx_C(x_hat_tp1_t),
         LAMBDA P_tp1_t, C :
    Let2(KalmanGain(P_tp1_t, C, Live_EKF_R),
         VSub(Tail1(y_t), Live_ExtendedKalmanFilter_h(x_hat_tp1_t, Tail1(y_t))),
         LAMBDA K, innov :
        [ x_pred |-> x_hat_tp1_t, P_pred |-> P_tp1_t, K |-> K, innov |-> innov,
          P |-> KalmanCovariance(5, K, C, P_tp1_t),
          entry |-> <<DoubleAdd(x_t[1], Live_dt_double)>> \o VAdd(x_hat_tp1_t, MatVec(K, innov)) ])))

\* ------------------------------------------------------------------------
\* Replay module: constants of Estimator.__init__ and ExtendedKalmanFilter
\* ------------------------------------------------------------------------

\* self.gr = 9.81
Replay_gr == 9810000

\* self.m = 0.92
Replay_m == 920000

\* self.J = 0.0023
Replay_J == 2300

\* self.landmark = (0, 5, 5)
Replay_landmark == <<0, 5 * F, 5 * F>>

\* ExtendedKalmanFilter: self.Q, self.R and the first self.P
Replay_EKF_Q == ScaledEye(6, 10000)

Replay_EKF_R == ScaledEye(2, 10 * F)

Replay_EKF_P0 == ScaledEye(6, 100000)

\* ------------------------------------------------------------------------
\* Replay module: the estimators' arithmetic; dt0 is self.dt
\* ------------------------------------------------------------------------

\* DeadReckoning.model(x, u): x = [x, z, phi, vx, vz, vphi], u = [u1, u2]
Replay_DeadReckoning_model(xs, us) ==
    Let2(xs, DivFix(us[1], Replay_m), LAMBDA xv, u1m :
        << xv[4],
           xv[5],
           xv[6],
           MulFix(-u1m, Sin(xv[3])),
           MulFix(u1m, Cos(xv[3])) - Replay_gr,
           DivFix(us[2], Replay_J) >>)

\* DeadReckoning.update, the entry x_hat_t1 it appends
Replay_DeadReckoning_step(x_hat_t, u_t0, dt0) ==
    Let2(x_hat_t, Replay_DeadReckoning_model(x_hat_t, u_t0), LAMBDA xv, dv :
        [k \in 1..6 |-> xv[k] + MulFix(dv[k], dt0)])

\* ExtendedKalmanFilter.f(x, u)
Replay_ExtendedKalmanFilter_f(xs, us) ==
    Let2(xs, DivFix(us[1], Replay_m), LAMBDA xv, u1m :
        << xv[4],
           xv[5],
           xv[6],
           MulFix(-u1m, Sin(xv[3])),
           MulFix(u1m, Cos(xv[3])) - Replay_gr,
           DivFix(us[2], Replay_J) >>)

\* ExtendedKalmanFilter.g(x, u)
Replay_ExtendedKalmanFilter_g(xs, us, dt0) ==
    Let2(xs, Replay_ExtendedKalmanFilter_f(xs, us), LAMBDA xv, dv :
        [k \in 1..6 |-> xv[k] + MulFix(dv[k], dt0)])

\* the distance to the landmark that h and approx_C compute:
\*   np.sqrt((landmark_x - x) ** 2 + (landmark_y - 0) ** 2 + (landmark_z - z) ** 2)
Replay_distance(xs) ==
    Let2(Replay_landmark[1] - xs[1], Replay_landmark[3] - xs[2], LAMBDA ex, ez :
        Sqrt(MulFix(ex, ex) + MulFix(Replay_landmark[2], Replay_landmark[2])
               + MulFix(ez, ez)))

\* ExtendedKalmanFilter.h(x, y_obs): [distance, bearing]
Replay_ExtendedKalmanFilter_h(xs, y_obs) == << Replay_distance(xs), xs[3] >>

\* ExtendedKalmanFilter.approx_A(x, u): np.eye(6) + df_dx * self.dt
Replay_ExtendedKalmanFilter_approx_A(xs, us, dt0) ==
    Let2(MulFix(MulFix(-DivFix(us[1], Replay_m), Cos(xs[3])), dt0),
         MulFix(MulFix(-DivFix(us[1], Replay_m), Sin(xs[3])), dt0),
         LAMBDA a43, a53 :
        [k \in 1..6 |-> [j \in 1..6 |->
            (IF k = j THEN F ELSE 0)
              + (IF j = k + 3 THEN MulFix(F, dt0)
                 ELSE IF k = 4 /\ j = 3 THEN a43
                 ELSE IF k = 5 /\ j = 3 THEN a53 ELSE 0)]])

\* ExtendedKalmanFilter.approx_C(x)
Replay_ExtendedKalmanFilter_approx_C(xs) ==
    Let(Replay_distance(xs), LAMBDA distance :
        << << DivFix(xs[1] - Replay_landmark[1], distance),
              DivFix(xs[2] - Replay_landmark[3], distance), 0, 0, 0, 0 >>,
           << 0, 0, F, 0, 0, 0 >> >>)

\* ExtendedKalmanFilter.update: the locals of one pass and what it leaves
\* behind (the new self.P and the entry it appends)
Replay_ExtendedKalmanFilter_step(x_hat_t, u_t0, y_t, P_t, dt0) ==
    Let2(Replay_ExtendedKalmanFilter_g(x_hat_t, u_t0, dt0),
         Replay_ExtendedKalmanFilter_approx_A(x_hat_t, u_t0, dt0),
         LAMBDA x_hat_tp1_t, A :
    Let2(MatAdd(MatMul(MatMul(A, P_t), Transpose(A)), Replay_EKF_Q),
         Replay_ExtendedKalmanFilter_approx_C(x_hat_tp1_t),
         LAMBDA P_tp1_t, C :
    Let2(KalmanGain(P_tp1_t, C, Replay_EKF_R),
         VSub(y_t, Replay_ExtendedKalmanFilter_h(x_hat_tp1_t, y_t)),
         LAMBDA K, innov :
        [ x_pred |-> x_hat_tp1_t, P_pred |-> P_tp1_t, K |-> K, innov |-> innov,
          P |-> KalmanCovariance(6, K, C, P_tp1_t),
          entry |-> VAdd(x_hat_tp1_t, MatVec(K, innov)) ])))

\* ------------------------------------------------------------------------
\* Bounds and inputs
\* ------------------------------------------------------------------------

\* the most messages the three subscribers of a live run receive together
MaxMsgs == 4

\* the longest x_hat an OracleObserver tick still appends to
MaxHat == 3

\* the stamps of the ground-truth messages, in ticks of Live_dt
Stamps == 0..2

\* the timestamp of tick k as msg.data holds it: the publisher's double
\* k * 0.1 after the float32 of the Float32MultiArray
LiveStamp(k) == Float32(DoubleTimes(k, Live_dt_double))

LiveVariants == {"OracleObserver", "DeadReckoning", "KalmanFilter", "ExtendedKalmanFilter"}

GuardedVariants == {"DeadReckoning", "KalmanFilter", "ExtendedKalmanFilter"}

KalmanVariants == {"KalmanFilter", "ExtendedKalmanFilter"}

\* wheel speeds (u_L, u_R) of an input message
WheelSpeeds == { <<F, F>>, <<0, F>> }

\* the state (phi, x, y, thl, thr) of the ground-truth message stamped
\* k * Live_dt: the robot drives straight from the origin, both wheels at 1 rad/s
LiveTruth(k) == << 0, k * 3300, 0, k * Live_dt, k * Live_dt >>

\* the two measured values of an output message
LiveOutputs == { <<0, 0>>, <<500000, 785398>> }

\* msg.data of the k-th message on topic u and on topic y, stamped in sequence
UMessages(k) == { <<LiveStamp(k)>> \o w : w \in WheelSpeeds }

YMessages(k) == { <<LiveStamp(k)>> \o o : o \in LiveOutputs }

\* msg.data of a message on topic x: any stamp of the grid, in any order
XMessages == { <<LiveStamp(k)>> \o LiveTruth(k) : k \in Stamps }

\* the most records of a replayed log
MaxRecords == 3

ReplayVariants == {"OracleObserver", "DeadReckoning", "ExtendedKalmanFilter"}

\* the sampling period of a replayed log: record k is stamped (k - 1) * period
Periods == { 100000, 250000 }

\* self.data.shape[1]: __init__ documents the log as (N, 12), time, x, u, then
\* y_obs, which leaves three columns to data[9:12]; of a log of 11 columns
\* data[9:12] is two columns
LogColumns == { 11, 12 }

\* rows of a replayed log, without the time column: the state columns
\* data[1:7] = (x, z, phi, vx, vz, vphi), the input columns data[7:9] =
\* (thrust, torque) and the measurement columns (distance, bearing)
ReplayRows ==
    { [ x |-> <<0, 0, 0, 0, 0, 0>>, u |-> <<9025200, 0>>, y |-> <<7071068, 0>> ],
      [ x |-> <<F, 2 * F, 100000, 500000, 0, 0>>, u |-> <<10 * F, 2300>>,
        y |-> <<6500000, 100000>> ],
      [ x |-> <<F, 2 * F, 100000, 500000, 0, 0>>, u |-> <<9025200, 0>>,
        y |-> <<5916080, 50000>> ] }

\* ------------------------------------------------------------------------
\* State
\* ------------------------------------------------------------------------

VARIABLES
    deployment,   \* "live" (Estimator.py) or "replay" (drone_estimator.py)
    variant,      \* the Estimator subclass that was constructed
    u, x, y,      \* self.u, self.x, self.y
    x_hat,        \* self.x_hat
    P,            \* self.P of the Kalman variants, <<>> for the others
    t,            \* self.t (replay)
    dt,           \* self.dt
    data_time,    \* replay: the time column self.data[:, 0] of the loaded log
    data_columns, \* replay: self.data.shape[1], 0 when no log is loaded
    i,            \* replay: the records run() has consumed
    pc,           \* live: where the timer thread stands inside update
    pc_x,         \* live: where the x subscriber stands inside callback_x
    u_t,          \* live: the local u_t of the update in progress
    loc,          \* the locals of the latest Kalman pass, <<>> before it
    tick_result,  \* how the latest update call ended
    constructed,  \* live: the subclass __init__ has run to its end
    invoked,      \* live: len(u), len(x), len(y) when the update in progress
                  \*   was called, zeros when none is
    twin          \* a second estimator object run side by side, <<>> if none

run_vars == << deployment, variant, u, x, y, x_hat, P, t, dt, data_time, i, pc,
               pc_x, u_t, loc, tick_result, invoked, constructed,
               data_columns >>

vars == << run_vars, twin >>

\* no update call in progress
NotInvoked == [ u |-> 0, x |-> 0, y |-> 0 ]

\* the buffers of the estimator object, as update reads them from self
Self == [ u |-> u, x |-> x, y |-> y, x_hat |-> x_hat ]

\* ------------------------------------------------------------------------
\* Live module: construction, subscriber callbacks, timer callback
\* ------------------------------------------------------------------------

\* self.P after the subclass __init__
LiveFirstP(v) ==
    IF v = "KalmanFilter" THEN Live_KF_P0
    ELSE IF v = "ExtendedKalmanFilter" THEN Live_EKF_P0
    ELSE <<>>

\* Estimator.__init__, which the subclass __init__ calls first: it ends by
\* starting the subscribers and the timer, so callbacks and ticks run from
\* here on, while the attributes the subclass assigns (A, B, C, Q, R, P,
\* phid) do not exist yet; P = <<>> stands for no attribute P
LiveInit ==
    /\ deployment = "live"
    /\ variant \in LiveVariants
    /\ constructed = FALSE
    /\ data_columns = 0
    /\ u = <<>> /\ x = <<>> /\ y = <<>> /\ x_hat = <<>>
    /\ P = <<>>
    /\ t = <<>>
    /\ dt = Live_dt
    /\ data_time = <<>>
    /\ i = 0
    /\ pc = "idle"
    /\ pc_x = "idle"
    /\ u_t = <<>>
    /\ loc = <<>>
    /\ tick_result = "none"
    /\ invoked = NotInvoked

\* the subclass __init__ after super().__init__(): the assignments of
\* canvas_title and, in KalmanFilter and ExtendedKalmanFilter, of the
\* matrices, self.P last.  An update that runs meanwhile reads self.P (or an
\* attribute assigned before it) either before this step, and raises
\* AttributeError, or after it.
Live_subclass_init ==
    /\ deployment = "live"
    /\ ~constructed
    /\ constructed' = TRUE
    /\ P' = LiveFirstP(variant)
    /\ UNCHANGED << deployment, variant, data_columns, invoked, u, x, y, x_hat, t, dt, data_time,
                    i, pc, pc_x, u_t, loc, tick_result >>

\* callback_u: self.u.append(msg.data)
callback_u ==
    /\ deployment = "live"
    /\ Len(u) + Len(x) + Len(y) < MaxMsgs
    /\ \E data \in UMessages(Len(u)) : u' = Append(u, data)
    /\ UNCHANGED << deployment, variant, data_columns, constructed, invoked, x, y, x_hat, P, t, dt, data_time, i, pc,
                    pc_x, u_t, loc, tick_result >>

\* callback_y: self.y.append(msg.data)
callback_y ==
    /\ deployment = "live"
    /\ Len(u) + Len(x) + Len(y) < MaxMsgs
    /\ \E data \in YMessages(Len(y)) : y' = Append(y, data)
    /\ UNCHANGED << deployment, variant, data_columns, constructed, invoked, u, x, x_hat, P, t, dt, data_time, i, pc,
                    pc_x, u_t, loc, tick_result >>

\* callback_x, line 109: self.x.append(msg.data).  The timer thread may run
\* before the test of line 110; when x_hat is not empty here it is not empty
\* there either, and callback_x returns.
callback_x ==
    /\ deployment = "live"
    /\ pc_x = "idle"
    /\ Len(u) + Len(x) + Len(y) < MaxMsgs
    /\ \E data \in XMessages : x' = Append(x, data)
    /\ pc_x' = IF Len(x_hat) = 0 THEN "check" ELSE "idle"
    /\ UNCHANGED << deployment, variant, data_columns, constructed, invoked, u, y, x_hat, P, t, dt, data_time, i, pc,
                    u_t, loc, tick_result >>

\* callback_x, line 110: if len(self.x_hat) == 0.  The timer thread may run
\* between this test and the append of line 111.
callback_x_test ==
    /\ deployment = "live"
    /\ pc_x = "check"
    /\ pc_x' = IF Len(x_hat) = 0 THEN "append" ELSE "idle"
    /\ UNCHANGED << deployment, variant, data_columns, constructed, invoked, u, x,
                    y, x_hat, P, t, dt, data_time, i, pc, u_t, loc, tick_result >>

\* callback_x, line 111: self.x_hat.append(msg.data), the record line 109
\* appended to x, whatever x_hat holds by now
callback_x_bootstrap ==
    /\ deployment = "live"
    /\ pc_x = "append"
    /\ pc_x' = "idle"
    /\ x_hat' = Append(x_hat, Last(x))
    /\ UNCHANGED << deployment, variant, data_columns, constructed, invoked, u, x, y, P, t, dt, data_time, i, pc, u_t,
                    loc, tick_result >>

\* OracleObserver.update: self.x_hat.append(self.x[-1]); x[-1] of an empty
\* list raises IndexError
Live_OracleObserver_update ==
    /\ deployment = "live"
    /\ variant = "OracleObserver"
    /\ Len(x_hat) < MaxHat
    /\ IF Len(x) = 0
       THEN tick_result' = "raise" /\ x_hat' = x_hat
       ELSE tick_result' = "append" /\ x_hat' = Append(x_hat, Last(x))
    /\ UNCHANGED << deployment, variant, data_columns, constructed, invoked, u, x, y, P, t, dt, data_time, i, pc, pc_x,
                    u_t, loc >>

\* the guard comparing the first estimate instead of the latest:
\*   if len(self.x_hat) > 0 and self.x_hat[0][0] < self.x[-1][0]
Live_update_guard_value_first_estimate(self) ==
    Len(self.x_hat) > 0 /\ StampLess(self.x_hat[1][1], Last(self.x)[1])

\* the guard without its comparison of timestamps: if len(self.x_hat) > 0
Live_update_guard_value_no_stamp(self) ==
    Len(self.x_hat) > 0

\* the guard of DeadReckoning.update, KalmanFilter.update and
\* ExtendedKalmanFilter.update:
\*   if len(self.x_hat) > 0 and self.x_hat[-1][0] < self.x[-1][0]
Live_update_guard_value(self) ==
    Len(self.x_hat) > 0 /\ StampLess(Last(self.x_hat)[1], Last(self.x)[1])

Live_update_guard ==
    /\ deployment = "live"
    /\ variant \in GuardedVariants
    /\ pc = "idle"
    /\ IF Len(x_hat) > 0 /\ Len(x) = 0
       THEN pc' = "idle" /\ tick_result' = "raise" /\ invoked' = invoked
       ELSE IF Live_update_guard_value(Self)
            THEN /\ pc' = "read_u"
                 /\ tick_result' = "running"
                 /\ invoked' = [ u |-> Len(u), x |-> Len(x), y |-> Len(y) ]
            ELSE pc' = "idle" /\ tick_result' = "skip" /\ invoked' = invoked
    /\ UNCHANGED << deployment, variant, data_columns, constructed, u, x, y, x_hat, P, t, dt, data_time, i,
                    pc_x, u_t, loc >>

\* DeadReckoning.update storing the step over the last entry,
\*   self.x_hat[-1] = x_tp1
Live_DeadReckoning_body_overwrite(self) ==
    [self.x_hat EXCEPT ![Len(self.x_hat)] =
        Live_DeadReckoning_step(Last(self.x_hat), Last(self.u))]

\* DeadReckoning.update with the body of OracleObserver.update
Live_DeadReckoning_body_truth(self) == Append(self.x_hat, Last(self.x))

\* DeadReckoning.update past the guard, u not empty: x_hat_t = self.x_hat[-1],
\* u_t = self.u[-1], the Euler step and the append; the value is self.x_hat
\* after it
Live_DeadReckoning_body(self) ==
    Append(self.x_hat, Live_DeadReckoning_step(Last(self.x_hat), Last(self.u)))

\* DeadReckoning.update past the guard: u_t = self.u[-1] raises IndexError on
\* an empty u
Live_DeadReckoning_update ==
    /\ deployment = "live"
    /\ variant = "DeadReckoning"
    /\ pc = "read_u"
    /\ pc' = "idle"
    /\ invoked' = NotInvoked
    /\ IF Len(u) = 0
       THEN tick_result' = "raise" /\ x_hat' = x_hat
       ELSE /\ tick_result' = "append"
            /\ x_hat' = Live_DeadReckoning_body(Self)
    /\ UNCHANGED << deployment, variant, data_columns, constructed, u, x, y, P, t, dt, data_time, i, pc_x,
                    u_t, loc >>

\* the Kalman updates past the guard: x_t = self.x_hat[-1]; u_t = self.u[-1]
Live_Kalman_read_u ==
    /\ deployment = "live"
    /\ variant \in KalmanVariants
    /\ pc = "read_u"
    /\ IF Len(u) = 0
       THEN /\ pc' = "idle"
            /\ tick_result' = "raise"
            /\ u_t' = u_t
            /\ invoked' = NotInvoked
       ELSE /\ pc' = "read_y"
            /\ tick_result' = "running"
            /\ u_t' = Last(u)
            /\ invoked' = invoked
    /\ UNCHANGED << deployment, variant, data_columns, constructed, u, x, y, x_hat, P, t, dt, data_time, i,
                    pc_x, loc >>

\* what a Kalman pass leaves in the locals
Locals(x_t, uu, yy, P_t, r) ==
    [ x_t |-> x_t, u_t |-> uu, y_t |-> yy, P_t |-> P_t, x_pred |-> r.x_pred,
      P_pred |-> r.P_pred, K |-> r.K, innov |-> r.innov ]

\* KalmanFilter.update from y_t = self.y[-1] (IndexError on an empty y) on;
\* self.A of an object still under construction raises AttributeError
Live_KalmanFilter_update ==
    /\ deployment = "live"
    /\ variant = "KalmanFilter"
    /\ pc = "read_y"
    /\ pc' = "idle"
    /\ u_t' = <<>>
    /\ invoked' = NotInvoked
    /\ IF Len(y) = 0 \/ ~constructed
       THEN tick_result' = "raise" /\ UNCHANGED << x_hat, P, loc >>
       ELSE LET r == Live_KalmanFilter_step(Last(x_hat), u_t, Last(y), P)
            IN  /\ tick_result' = "append"
                /\ P' = r.P
                /\ x_hat' = Append(x_hat, r.entry)
                /\ loc' = Locals(Last(x_hat), u_t, Last(y), P, r)
    /\ UNCHANGED << deployment, variant, data_columns, constructed, u, x, y, t, dt, data_time, i, pc_x >>

\* ExtendedKalmanFilter.update from y_t = self.y[-1][1:] on; self.P of an
\* object still under construction raises AttributeError
Live_ExtendedKalmanFilter_update ==
    /\ deployment = "live"
    /\ variant = "ExtendedKalmanFilter"
    /\ pc = "read_y"
    /\ pc' = "idle"
    /\ u_t' = <<>>
    /\ invoked' = NotInvoked
    /\ IF Len(y) = 0 \/ ~constructed
       THEN tick_result' = "raise" /\ UNCHANGED << x_hat, P, loc >>
       ELSE LET r == Live_ExtendedKalmanFilter_step(Last(x_hat), u_t, Last(y), P)
            IN  /\ tick_result' = "append"
                /\ P' = r.P
                /\ x_hat' = Append(x_hat, r.entry)
                /\ loc' = Locals(Last(x_hat), u_t, Last(y), P, r)
    /\ UNCHANGED << deployment, variant, data_columns, constructed, u, x, y, t, dt, data_time, i, pc_x >>

\* ------------------------------------------------------------------------
\* Replay module: construction and run()
\* ------------------------------------------------------------------------

ReplayFirstP(v) == IF v = "ExtendedKalmanFilter" THEN Replay_EKF_P0 ELSE <<>>

\* Estimator.__init__: the log is loaded and
\*   self.dt = self.data[-1][0] / self.data.shape[0]
Replay_dt(times) == DivInt(Last(times), Len(times))

ReplayInit ==
    /\ deployment = "replay"
    /\ variant \in ReplayVariants
    /\ \E n \in 1..MaxRecords, period \in Periods :
          data_time = [k \in 1..n |-> (k - 1) * period]
    /\ data_columns \in LogColumns
    /\ dt = Replay_dt(data_time)
    /\ constructed = TRUE
    /\ u = <<>> /\ x = <<>> /\ y = <<>> /\ x_hat = <<>> /\ t = <<>>
    /\ P = ReplayFirstP(variant)
    /\ i = 0
    /\ pc = "idle"
    /\ pc_x = "idle"
    /\ u_t = <<>>
    /\ loc = <<>>
    /\ tick_result = "none"
    /\ invoked = NotInvoked

\* the records run() cuts out of the rows of the loaded log: data[1:7],
\* data[7:9] and data[9:12], which of a log of 12 columns has three fields
\* (the docstring names y[i][1] the distance and y[i][2] the bearing)
ReplayRecords ==
    { [ x |-> r.x, u |-> r.u,
        y |-> IF data_columns = 12 THEN <<0>> \o r.y ELSE r.y ] : r \in ReplayRows }

\* the estimator object when run() calls update: the buffers hold the record
\* `data` already, x_hat does not
ReplaySelf(data) ==
    [ u |-> Append(u, data.u), x |-> Append(x, data.x), y |-> Append(y, data.y),
      x_hat |-> x_hat, P |-> P, loc |-> loc, dt |-> dt ]

\* OracleObserver.update: what it leaves in self.x_hat, self.P and the locals,
\* and how it ends
Replay_OracleObserver_update(self) ==
    [ x_hat |-> Append(self.x_hat, Last(self.x)), P |-> self.P, loc |-> self.loc,
      result |-> "append" ]

\* DeadReckoning.update
Replay_DeadReckoning_update(self) ==
    IF Len(self.x_hat) > 0
    THEN [ x_hat |-> Append(self.x_hat,
                            Replay_DeadReckoning_step(Last(self.x_hat), Last(self.u),
                                                      self.dt)),
           P |-> self.P, loc |-> self.loc, result |-> "append" ]
    ELSE [ x_hat |-> self.x_hat, P |-> self.P, loc |-> self.loc, result |-> "skip" ]

\* ExtendedKalmanFilter.update.  y_t - self.h(x_hat_tp1_t, y_t) subtracts the
\* two values of h from y_t: on a y_t of three fields numpy raises ValueError
\* (shapes (3,) and (2,)), before self.P is assigned or anything appended.
Replay_ExtendedKalmanFilter_update(self) ==
    IF Len(self.x_hat) > 0 /\ Len(Last(self.y)) # 2
    THEN [ x_hat |-> self.x_hat, P |-> self.P, loc |-> self.loc, result |-> "raise" ]
    ELSE IF Len(self.x_hat) > 0
    THEN Let(Replay_ExtendedKalmanFilter_step(Last(self.x_hat), Last(self.u),
                                              Last(self.y), self.P, self.dt),
             LAMBDA r :
                [ x_hat |-> Append(self.x_hat, r.entry), P |-> r.P,
                  loc |-> Locals(Last(self.x_hat), Last(self.u), Last(self.y),
                                 self.P, r),
                  result |-> "append" ])
    ELSE [ x_hat |-> self.x_hat, P |-> self.P, loc |-> self.loc, result |-> "skip" ]

\* self.update(i) of the constructed subclass
Replay_update(self) ==
    IF variant = "OracleObserver" THEN Replay_OracleObserver_update(self)
    ELSE IF variant = "DeadReckoning" THEN Replay_DeadReckoning_update(self)
    ELSE Replay_ExtendedKalmanFilter_update(self)

\* Estimator.run, one iteration of its loop over self.data, on the record
\* data; an exception of update ends run()
run_record(data) ==
    /\ deployment = "replay"
    /\ i < Len(data_time)
    /\ tick_result # "raise"
    /\ t' = Append(t, data_time[i + 1])
    /\ x' = Append(x, data.x)
    /\ u' = Append(u, data.u)
    /\ y' = Append(y, data.y)
    /\ IF i = 0
       THEN /\ x_hat' = Append(x_hat, data.x)
            /\ UNCHANGED << P, loc, tick_result >>
       ELSE \E r \in { Replay_update(ReplaySelf(data)) } :
            /\ x_hat' = r.x_hat
            /\ P' = r.P
            /\ loc' = r.loc
            /\ tick_result' = r.result
    /\ i' = i + 1
    /\ UNCHANGED << deployment, variant, data_columns, constructed, invoked, dt, data_time, pc, pc_x, u_t >>

run == \E data \in ReplayRecords : run_record(data)

\* ------------------------------------------------------------------------
\* One estimator: either module
\* ------------------------------------------------------------------------

Init ==
    /\ LiveInit \/ ReplayInit
    /\ twin = <<>>

Next ==
    \/ Live_subclass_init /\ UNCHANGED twin
    \/ callback_u /\ UNCHANGED twin
    \/ callback_x /\ UNCHANGED twin
    \/ callback_x_test /\ UNCHANGED twin
    \/ callback_x_bootstrap /\ UNCHANGED twin
    \/ callback_y /\ UNCHANGED twin
    \/ Live_OracleObserver_update /\ UNCHANGED twin
    \/ Live_update_guard /\ UNCHANGED twin
    \/ Live_DeadReckoning_update /\ UNCHANGED twin
    \/ Live_Kalman_read_u /\ UNCHANGED twin
    \/ Live_KalmanFilter_update /\ UNCHANGED twin
    \/ Live_ExtendedKalmanFilter_update /\ UNCHANGED twin
    \/ run /\ UNCHANGED twin

Spec == Init /\ [][Next]_vars

\* ------------------------------------------------------------------------
\* Two DeadReckoning estimators side by side.  The first is the estimator of
\* the actions above; the second, twin, is constructed alike and receives the
\* same input messages u, in the same order of callbacks and ticks, and the
\* same first ground-truth record; its measurements and its later
\* ground-truth records are its own.
\* ------------------------------------------------------------------------

\* ground-truth states the twin may be sent instead
OtherTruth(k) == << 100000, k * 3300, 50000, 0, 0 >>

TwinXMessages ==
    XMessages \cup { <<LiveStamp(k)>> \o OtherTruth(k) : k \in Stamps }

\* Estimator.__init__ of the twin
TwinInit ==
    twin = [ u |-> <<>>, x |-> <<>>, y |-> <<>>, x_hat |-> <<>>,
             pc |-> "idle", pc_x |-> "idle" ]

PairInit ==
    /\ LiveInit \/ ReplayInit
    /\ variant = "DeadReckoning"
    /\ TwinInit

\* callback_u of both, on the same message
Pair_callback_u ==
    /\ callback_u
    /\ twin' = [twin EXCEPT !.u = u']

\* callback_y of both, each on its own message
Pair_callback_y ==
    /\ callback_y
    /\ \E data \in YMessages(Len(twin.y)) : twin' = [twin EXCEPT !.y = Append(@, data)]

\* callback_x of both, first statement; the first record is the same
Pair_callback_x ==
    /\ callback_x
    /\ twin.pc_x = "idle"
    /\ \E data \in TwinXMessages :
          /\ Len(twin.x) = 0 => data = Last(x')
          /\ twin' = [twin EXCEPT !.x = Append(@, data),
                                  !.pc_x = IF Len(twin.x_hat) = 0 THEN "check"
                                           ELSE "idle"]

\* callback_x of both, the test of line 110
Pair_callback_x_test ==
    /\ callback_x_test
    /\ twin.pc_x = "check"
    /\ twin' = [twin EXCEPT !.pc_x = IF Len(twin.x_hat) = 0 THEN "append"
                                     ELSE "idle"]

\* callback_x of both, the append of line 111
Pair_callback_x_bootstrap ==
    /\ callback_x_bootstrap
    /\ twin.pc_x = "append"
    /\ twin' = [twin EXCEPT !.pc_x = "idle",
                            !.x_hat = Append(@, Last(twin.x))]

\* the timer fires in both: each evaluates the guard of DeadReckoning.update
Pair_update_guard ==
    /\ Live_update_guard
    /\ twin.pc = "idle"
    /\ twin' = [twin EXCEPT !.pc = IF Live_update_guard_value(twin) THEN "read_u"
                                   ELSE "idle"]

\* DeadReckoning.update of the twin past the guard
Twin_DeadReckoning_body ==
    [twin EXCEPT !.pc = "idle",
                 !.x_hat = IF Len(twin.u) = 0 THEN @
                           ELSE Live_DeadReckoning_body(twin)]

\* both go on past the guard; a twin that skipped has returned already
Pair_DeadReckoning_update ==
    /\ Live_DeadReckoning_update
    /\ twin' = IF twin.pc = "read_u" THEN Twin_DeadReckoning_body ELSE twin

\* the twin goes on past the guard, the first estimator skipped
Twin_DeadReckoning_update ==
    /\ deployment = "live"
    /\ pc = "idle"
    /\ twin.pc = "read_u"
    /\ twin' = Twin_DeadReckoning_body
    /\ UNCHANGED run_vars

\* the estimator object of the twin when its run() calls update
TwinReplaySelf(data) ==
    [ u |-> Append(twin.u, data.u), x |-> Append(twin.x, data.x),
      y |-> Append(twin.y, data.y), x_hat |-> twin.x_hat, P |-> P, loc |-> loc,
      dt |-> dt ]

\* Estimator.run of both, one iteration: the logs have the same time column
\* and the same inputs, and the same first record
Pair_run ==
    \E data \in ReplayRecords, other \in ReplayRecords :
        /\ other.u = data.u
        /\ i = 0 => other = data
        /\ run_record(data)
        /\ twin' = [twin EXCEPT
                      !.u = Append(@, other.u),
                      !.x = Append(@, other.x),
                      !.y = Append(@, other.y),
                      !.x_hat = IF i = 0 THEN Append(@, other.x)
                                ELSE Replay_update(TwinReplaySelf(other)).x_hat]

\* DeadReckoning.__init__ of both after super().__init__(): canvas_title
Pair_subclass_init ==
    /\ Live_subclass_init
    /\ UNCHANGED twin

PairNext ==
    \/ Pair_subclass_init
    \/ Pair_callback_u
    \/ Pair_callback_y
    \/ Pair_callback_x
    \/ Pair_callback_x_test
    \/ Pair_callback_x_bootstrap
    \/ Pair_update_guard
    \/ Pair_DeadReckoning_update
    \/ Twin_DeadReckoning_update
    \/ Pair_run

SpecPair == PairInit /\ [][PairNext]_vars

\* ------------------------------------------------------------------------
\* Properties
\* ------------------------------------------------------------------------

\* C1: for OracleObserver, in both modules, every entry of x_hat is the
\* ground-truth record of the same index: x_hat[k] exists in x and equals it.
C1_OracleExact ==
    variant = "OracleObserver" =>
        \A k \in 1..Len(x_hat) : k <= Len(x) /\ x_hat[k] = x[k]

\* C2: in the replay module, for every variant and every log, after run()
\* has consumed i records t, x, u, y and x_hat all have length i, and so
\* run() ends with len(x_hat) equal to the number of records of the log.
C2_ReplayLengths ==
    deployment = "replay" =>
        /\ Len(t) = i /\ Len(x) = i /\ Len(u) = i /\ Len(y) = i /\ Len(x_hat) = i
        /\ i = Len(data_time) => Len(x_hat) = Len(data_time)

\* C3: bootstrapping.  Whenever x_hat is not empty its first entry is the
\* first ground-truth record, and that entry is written by run() at i = 0 or
\* by callback_x, never by an update: while callback_x stands between
\* appending to x and appending to x_hat, having found x_hat empty, x_hat
\* is still empty.
C3_Bootstrapping ==
    /\ Len(x_hat) > 0 => (Len(x) > 0 /\ x_hat[1] = x[1])
    /\ pc_x \in {"check", "append"} => Len(x_hat) = 0

\* C4: DeadReckoning is the forward-Euler recursion on the previous input:
\* entry k of x_hat (k >= 2, counting from 1) is the Euler step from entry
\* k - 1 under the input of record k - 1.
C4_EulerOnPreviousInput ==
    variant = "DeadReckoning" =>
        \A k \in 2..Len(x_hat) :
            /\ k - 1 <= Len(u)
            /\ x_hat[k] = IF deployment = "replay"
                          THEN Replay_DeadReckoning_step(x_hat[k - 1], u[k - 1], dt)
                          ELSE Live_DeadReckoning_step(x_hat[k - 1], u[k - 1])

\* no ground-truth record stamped later than the last processed one has
\* arrived
NoNewerTruth ==
    Len(x_hat) > 0 /\ Len(x) > 0 /\ ~StampLess(Last(x_hat)[1], Last(x)[1])

\* C5: skip policy of the live module.  For any variant, when no update is
\* in progress and no ground-truth record stamped later than the last
\* processed one has arrived, no step of a callback or of a tick (so no
\* tick) appends to x_hat or changes P.
C5_SkipIsNoOp ==
    [][ ( /\ deployment = "live"
          /\ pc = "idle"
          /\ pc_x = "idle"
          /\ NoNewerTruth
          /\ constructed' = constructed )
            => (x_hat' = x_hat /\ P' = P) ]_vars

\* C6: empty-buffer tolerance of the live module.  For every variant and
\* under every interleaving, no update call ends by raising: a tick that
\* finds a buffer it reads empty returns with nothing changed.
C6_EmptyBufferTolerated ==
    deployment = "live" => tick_result # "raise"

\* the ground-truth stamps of the two estimators agree (a replayed log
\* stamps the whole record, and the two logs share the time column)
TwinStampsAgree ==
    deployment = "live" =>
        /\ Len(twin.x) = Len(x)
        /\ \A k \in 1..Len(x) : twin.x[k][1] = x[k][1]

\* C7 as amended: two DeadReckoning estimators that agree on x[0], on the
\* inputs u, on the order of callbacks and ticks and on the stamps of the
\* ground-truth records, and differ in the measurements y and in the states
\* of the ground-truth records after the first, have the same x_hat.
C7_NoFlowFromMeasurementsAndStates ==
    TwinStampsAgree => twin.x_hat = x_hat

\* C7, reached: a live pair whose measurements and later ground-truth states
\* differ, stamps agreeing, after an update of both
C7_TwinsDiffer ==
    /\ deployment = "live"
    /\ TwinStampsAgree
    /\ twin.x # x
    /\ twin.y # y
    /\ Len(x_hat) >= 2
    /\ Len(twin.x_hat) >= 2

\* C7 as first stated: two DeadReckoning estimators that agree on x[0] and on the
\* inputs u, and differ in y and in the later ground-truth records, stamps
\* included, have the same x_hat.
C7_NoFlowFromLaterTruth ==
    twin.x_hat = x_hat

\* the landmark of the live module: "the landmark is positioned at (0.5, 0.5)"
Live_landmark == << 500000, 500000 >>

\* the range-bearing observation model at the state xs, without stamp: the
\* Euclidean distance from the position to the landmark, and the bearing
RangeBearing(xs) ==
    IF deployment = "replay"
    THEN << Replay_distance(xs), xs[3] >>
    ELSE Let2(Live_landmark[1] - xs[2], Live_landmark[2] - xs[3], LAMBDA ex, ey :
             << Sqrt(MulFix(ex, ex) + MulFix(ey, ey)), xs[1] >>)

\* the position components of the state xs
PositionOf(xs) == IF deployment = "replay" THEN << xs[1], xs[2] >> ELSE << xs[2], xs[3] >>

\* the measured values y_t of the latest Kalman pass, without stamp
MeasuredOf(l) == IF deployment = "replay" THEN l.y_t ELSE Tail1(l.y_t)

\* C8: in every ExtendedKalmanFilter update, in both modules, the innovation
\* is y - h(x_pred) with h the range-bearing model (distance to the landmark,
\* bearing), and not y minus the position components of x_pred.
C8_RangeBearingInnovation ==
    (variant = "ExtendedKalmanFilter" /\ loc # <<>>) =>
        /\ loc.innov = VSub(MeasuredOf(loc), RangeBearing(loc.x_pred))
        /\ loc.innov # VSub(MeasuredOf(loc), PositionOf(loc.x_pred))

\* the scenario of C9 so far: the first ground-truth record is the origin
\* and every input message has both wheels at 1 rad/s
StraightLineScenario ==
    /\ deployment = "live"
    /\ variant = "DeadReckoning"
    /\ Len(x_hat) > 0
    /\ Tail1(x_hat[1]) = << 0, 0, 0, 0, 0 >>
    /\ \A k \in 1..Len(u) : Tail1(u[k]) = << F, F >>

\* C9: with dt = 0.1, d = 0.08, r = 0.033, the initial state (bearing, x, y,
\* thl, thr) = 0 and inputs u_L = u_R = 1, DeadReckoning's second entry is
\* (0, 0.0033, 0, 0.1, 0.1) and its third (0, 0.0066, 0, 0.2, 0.2).
C9_StraightLine ==
    StraightLineScenario =>
        /\ Len(x_hat) >= 2 => Tail1(x_hat[2]) = << 0, 3300, 0, 100000, 100000 >>
        /\ Len(x_hat) >= 3 => Tail1(x_hat[3]) = << 0, 6600, 0, 200000, 200000 >>

\* C9, reached: the scenario after two updates
C9_TwoSteps ==
    StraightLineScenario /\ Len(x_hat) >= 3 /\ Len(u) >= 1

\* C11: x_hat is append-only.  Every step (a callback, an iteration of run(),
\* an update of any variant) keeps the entries x_hat had, in their order,
\* and adds at most one; the length never decreases.
C11_AppendOnly ==
    [][ /\ Len(x_hat') >= Len(x_hat)
        /\ Len(x_hat') <= Len(x_hat) + 1
        /\ SubSeq(x_hat', 1, Len(x_hat)) = x_hat ]_vars

\* C11, reached: x_hat after the bootstrap and two updates
C11_Grown ==
    Len(x_hat) >= 3 /\ tick_result = "append"

\* C12: in the live module, for every variant and every interleaving of the
\* callbacks and the timer, the estimate history is never longer than the
\* ground-truth history: len(x_hat) <= len(x).
C12_HistoryLength ==
    deployment = "live" => Len(x_hat) <= Len(x)

\* C13: in the live module the records one tick works on are the tails of
\* the buffers as they stood when the tick was called, also when callbacks
\* append while the update runs: the input a DeadReckoning tick integrates
\* and the input and measurement a Kalman tick filters are u[-1] and y[-1]
\* of the call time.
C13_TickSnapshot ==
    [][ /\ ( /\ variant = "DeadReckoning"
             /\ pc = "read_u"
             /\ tick_result' = "append" )
           => /\ invoked.u >= 1
              /\ x_hat' = Append(x_hat, Live_DeadReckoning_step(Last(x_hat),
                                                                u[invoked.u]))
        /\ ( /\ variant \in KalmanVariants
             /\ pc = "read_u"
             /\ pc' = "read_y" )
           => /\ invoked.u >= 1
              /\ u_t' = u[invoked.u]
        /\ ( /\ variant \in KalmanVariants
             /\ pc = "read_y"
             /\ tick_result' = "append" )
           => /\ invoked.y >= 1
              /\ loc'.y_t = y[invoked.y] ]_vars

\* C14: every KalmanFilter update that is not skipped is the four-step
\* recursion on the constants A, B, C, Q, R of construction: the prediction
\* A x_prev + B u and A P A^T + Q, the innovation y - C x_pred, the gain
\* P_pred C^T (C P_pred C^T + R)^-1, the correction x_pred + K innovation and
\* P = (I - K C) P_pred, the gain and the new P from the predicted covariance
\* and not from the one before the prediction; the entry it appends carries
\* the corrected state in its position and wheel fields.
C14_KalmanRecursion ==
    (deployment = "live" /\ variant = "KalmanFilter" /\ loc # <<>>) =>
        /\ loc.x_pred = VAdd(MatVec(Live_KF_A, Tail2(loc.x_t)),
                             MatVec(Live_KF_B, Tail1(loc.u_t)))
        /\ loc.P_pred = MatAdd(MatMul(MatMul(Live_KF_A, loc.P_t),
                                      Transpose(Live_KF_A)), Live_KF_Q)
        /\ loc.innov = VSub(Tail1(loc.y_t), MatVec(Live_KF_C, loc.x_pred))
        /\ loc.K = MatMul(MatMul(loc.P_pred, Transpose(Live_KF_C)),
                          Inv2(MatAdd(MatMul(MatMul(Live_KF_C, loc.P_pred),
                                             Transpose(Live_KF_C)), Live_KF_R)))
        /\ P = MatMul(MatSub(Eye(4), MatMul(loc.K, Live_KF_C)), loc.P_pred)
        /\ Tail2(Last(x_hat)) = VAdd(loc.x_pred, MatVec(loc.K, loc.innov))

\* C14, reached: a KalmanFilter update has run on a measurement that differs
\* from the predicted one, with a predicted covariance that differs from
\* the one before the prediction
C14_Corrected ==
    /\ deployment = "live"
    /\ variant = "KalmanFilter"
    /\ loc # <<>>
    /\ tick_result = "append"
    /\ loc.innov # << 0, 0 >>
    /\ loc.P_pred # loc.P_t

\* the records of a buffer carry non-decreasing timestamps
StampsNonDecreasing(s) ==
    \A k \in 1..(Len(s) - 1) : ~StampLess(s[k + 1][1], s[k][1])

\* C15: in the live module, for DeadReckoning, KalmanFilter and
\* ExtendedKalmanFilter, the timestamp of each estimate is the one before it
\* plus dt (the float sum x_hat[k][0] + dt, exactly), and while the
\* ground-truth timestamps are non-decreasing the latest estimate is less
\* than one step ahead of the latest ground truth:
\* x_hat[-1][0] < x[-1][0] + dt.
C15_StampsInStep ==
    (deployment = "live" /\ variant \in GuardedVariants) =>
        /\ \A k \in 1..(Len(x_hat) - 1) :
              x_hat[k + 1][1] = DoubleAdd(x_hat[k][1], Live_dt_double)
        /\ (Len(x_hat) > 0 /\ StampsNonDecreasing(x))
              => StampLess(Last(x_hat)[1], StampSum(Last(x)[1], Live_dt_double))

\* C15, reached: two updates have appended and the estimate has caught up
\* with the latest ground-truth timestamp
C15_CaughtUp ==
    /\ deployment = "live"
    /\ variant \in GuardedVariants
    /\ Len(x_hat) >= 3
    /\ StampsNonDecreasing(x)
    /\ ~StampLess(Last(x_hat)[1], Last(x)[1])

\* C16: quiescence of the live module for DeadReckoning, KalmanFilter and
\* ExtendedKalmanFilter.  While no record arrives, every tick that appends
\* moves the timestamp of the latest estimate up by dt > 0, and a tick
\* called when that timestamp is not below the latest ground-truth timestamp
\* is a no-op: after the inputs stop only finitely many ticks append (those
\* it takes to reach the latest ground-truth timestamp, and the one in
\* progress), then x_hat stops growing.
C16_Quiescence ==
    [][ ( /\ deployment = "live"
          /\ variant \in GuardedVariants
          /\ Len(x_hat) > 0
          /\ << u, x, y >>' = << u, x, y >> )
        => /\ dt > 0
           /\ x_hat' # x_hat
                 => /\ Last(x_hat')[1] = DoubleAdd(Last(x_hat)[1], Live_dt_double)
                    /\ StampLess(Last(x_hat)[1], Last(x_hat')[1])
           /\ (pc = "idle" /\ ~StampLess(Last(x_hat)[1], Last(x)[1]))
                 => (x_hat' = x_hat /\ pc' = "idle") ]_vars

\* C16, reached: updates have appended until the estimate caught up, and the
\* tick after them was a no-op
C16_Quiet ==
    /\ deployment = "live"
    /\ variant \in GuardedVariants
    /\ Len(x_hat) >= 2
    /\ pc = "idle"
    /\ tick_result = "skip"
    /\ ~StampLess(Last(x_hat)[1], Last(x)[1])

====
